---- MODULE Spec2Model ----
(***************************************************************************)
(* Model of the Divvit receipt backend: the POST /api/v1/scan endpoint     *)
(* (backend/app/api/endpoints/receipts.py) and the Gemini extraction       *)
(* client (backend/app/services/gemini.py).                                *)
(*                                                                         *)
(* Text is a sequence of characters, each a one-character string; the      *)
(* backquote, which a TLA+ string cannot hold, is the string "BQ".         *)
(* Python values are tagged records:                                       *)
(* [t |-> "null"], [t |-> "bool", b], [t |-> "int", n],                    *)
(* [t |-> "float", m, e] (m * 10^-e, trailing zeros dropped),              *)
(* [t |-> "str", s], [t |-> "list", xs], [t |-> "dict", kv] (a sequence of *)
(* <<key, value>> pairs in insertion order).                               *)
(***************************************************************************)
EXTENDS Integers, Sequences, FiniteSets, TLC

VARIABLES settings, environ, stub, req, text, npieces, normOut

vars == <<settings, environ, stub, req, text, npieces, normOut>>

(***************************************************************************)
(* Bounds of the model.                                                    *)
(***************************************************************************)
NumRequests == 2
MaxPieces == 6

(***************************************************************************)
(* str methods used by parse_receipt.                                      *)
(***************************************************************************)
\* the characters str.strip() removes and json.loads skips (within the alphabet)
Whitespace == {" ", "\n", "\t", "\r"}

BQ == "BQ"

\* the three backquotes response_text.startswith tests for
Fence == <<BQ, BQ, BQ>>

RECURSIVE LStripFrom(_, _)
LStripFrom(s, i) ==
  IF i <= Len(s) /\ s[i] \in Whitespace THEN LStripFrom(s, i + 1) ELSE i

RECURSIVE RStripFrom(_, _)
RStripFrom(s, j) ==
  IF j >= 1 /\ s[j] \in Whitespace THEN RStripFrom(s, j - 1) ELSE j

\* s.strip()
StrStrip(s) == SubSeq(s, LStripFrom(s, 1), RStripFrom(s, Len(s)))

\* s.startswith(p)
StartsWith(s, p) == Len(s) >= Len(p) /\ SubSeq(s, 1, Len(p)) = p

\* s.split(sep) for a one-character sep: k separators give k + 1 parts
RECURSIVE SplitFrom(_, _, _, _)
SplitFrom(s, sep, i, cur) ==
  IF i > Len(s) THEN <<cur>>
  ELSE IF s[i] = sep THEN <<cur>> \o SplitFrom(s, sep, i + 1, <<>>)
  ELSE SplitFrom(s, sep, i + 1, Append(cur, s[i]))

StrSplit(s, sep) == SplitFrom(s, sep, 1, <<>>)

\* sep.join(parts)
RECURSIVE StrJoin(_, _)
StrJoin(sep, parts) ==
  IF parts = <<>> THEN <<>>
  ELSE IF Len(parts) = 1 THEN parts[1]
  ELSE parts[1] \o <<sep>> \o StrJoin(sep, Tail(parts))

\* faulty variant of SliceInner: lines[1:], the closing fence line is kept
SliceFromSecond(lines) == SubSeq(lines, 2, Len(lines))

\* lines[1:-1]
SliceInner(lines) == SubSeq(lines, 2, Len(lines) - 1)

(***************************************************************************)
(* json.loads, for documents over the alphabet of the model: objects,      *)
(* arrays, strings with the simple escapes, integers, decimals, null,      *)
(* true, false.                                                            *)
(* A result is [ok |-> TRUE, val, next] or [ok |-> FALSE]                  *)
(* (json.JSONDecodeError).                                                 *)
(***************************************************************************)
Digits == {"0", "1", "2", "3", "4", "5", "6", "7", "8", "9"}

DigitVal(c) ==
  CASE c = "0" -> 0 [] c = "1" -> 1 [] c = "2" -> 2 [] c = "3" -> 3
    [] c = "4" -> 4 [] c = "5" -> 5 [] c = "6" -> 6 [] c = "7" -> 7
    [] c = "8" -> 8 [] c = "9" -> 9

JsonFail == [ok |-> FALSE]

PyNone == [t |-> "null"]
PyBool(b) == [t |-> "bool", b |-> b]
PyInt(n) == [t |-> "int", n |-> n]
PyStr(s) == [t |-> "str", s |-> s]
PyList(xs) == [t |-> "list", xs |-> xs]
PyDict(kv) == [t |-> "dict", kv |-> kv]

\* float(literal): mantissa m and e fraction digits, trailing zeros dropped
RECURSIVE PyFloat(_, _)
PyFloat(m, e) ==
  IF e > 0 /\ m % 10 = 0 THEN PyFloat(m \div 10, e - 1)
  ELSE [t |-> "float", m |-> m, e |-> e]

RECURSIVE SkipWs(_, _)
SkipWs(s, i) ==
  IF i <= Len(s) /\ s[i] \in Whitespace THEN SkipWs(s, i + 1) ELSE i

\* a run of digits from i: [n |-> value, len |-> count, next |-> index after]
RECURSIVE ScanDigits(_, _, _, _)
ScanDigits(s, i, acc, cnt) ==
  IF i <= Len(s) /\ s[i] \in Digits
  THEN ScanDigits(s, i + 1, acc * 10 + DigitVal(s[i]), cnt + 1)
  ELSE [n |-> acc, len |-> cnt, next |-> i]

RECURSIVE Pow10(_)
Pow10(k) == IF k = 0 THEN 1 ELSE 10 * Pow10(k - 1)

\* NUMBER_RE: (-?(?:0|[1-9]\d*))(\.\d+)?  (no exponent in the alphabet)
ParseNumber(s, i) ==
  LET neg == i <= Len(s) /\ s[i] = "-"
      j == IF neg THEN i + 1 ELSE i
      sign == IF neg THEN -1 ELSE 1
  IN IF ~(j <= Len(s) /\ s[j] \in Digits) THEN JsonFail
     ELSE LET ip == IF s[j] = "0" THEN [n |-> 0, len |-> 1, next |-> j + 1]
                    ELSE ScanDigits(s, j, 0, 0)
              k == ip.next
              fp == IF k < Len(s) /\ s[k] = "." /\ s[k + 1] \in Digits
                    THEN ScanDigits(s, k + 1, 0, 0)
                    ELSE [n |-> 0, len |-> 0, next |-> k]
          IN IF fp.len = 0
             THEN [ok |-> TRUE, val |-> PyInt(sign * ip.n), next |-> k]
             ELSE [ok |-> TRUE,
                   val |-> PyFloat(sign * (ip.n * Pow10(fp.len) + fp.n), fp.len),
                   next |-> fp.next]

\* BACKSLASH: the backspace and the form feed are the strings "BS" and "FF"
Escapes == {"\"", "\\", "/", "b", "f", "n", "r", "t"}

Unescape(c) ==
  CASE c = "n" -> "\n" [] c = "t" -> "\t" [] c = "r" -> "\r"
    [] c = "b" -> "BS" [] c = "f" -> "FF" [] OTHER -> c

\* py_scanstring, strict: i is the index after the opening quote
RECURSIVE ScanString(_, _, _)
ScanString(s, i, acc) ==
  IF i > Len(s) THEN JsonFail
  ELSE IF s[i] = "\"" THEN [ok |-> TRUE, val |-> PyStr(acc), next |-> i + 1]
  ELSE IF s[i] \in {"\n", "\t", "\r"} THEN JsonFail
  ELSE IF s[i] = "\\"
       THEN IF i < Len(s) /\ s[i + 1] \in Escapes
            THEN ScanString(s, i + 2, Append(acc, Unescape(s[i + 1])))
            ELSE JsonFail
  ELSE ScanString(s, i + 1, Append(acc, s[i]))

Literal(s, i, word, val) ==
  IF i + Len(word) - 1 <= Len(s) /\ SubSeq(s, i, i + Len(word) - 1) = word
  THEN [ok |-> TRUE, val |-> val, next |-> i + Len(word)]
  ELSE JsonFail

\* dict[key] = value: a repeated key keeps its place and takes the new value
DictSet(kv, key, value) ==
  IF \E n \in 1..Len(kv) : kv[n][1] = key
  THEN [n \in 1..Len(kv) |-> IF kv[n][1] = key THEN <<key, value>> ELSE kv[n]]
  ELSE Append(kv, <<key, value>>)

RECURSIVE ScanOnce(_, _), ScanArray(_, _, _), ScanObject(_, _, _)

\* scanner.scan_once
ScanOnce(s, i) ==
  IF i > Len(s) THEN JsonFail
  ELSE IF s[i] = "\"" THEN ScanString(s, i + 1, <<>>)
  ELSE IF s[i] = "{"
       THEN LET j == SkipWs(s, i + 1)
            IN IF j <= Len(s) /\ s[j] = "}"
               THEN [ok |-> TRUE, val |-> PyDict(<<>>), next |-> j + 1]
               ELSE ScanObject(s, j, <<>>)
  ELSE IF s[i] = "["
       THEN LET j == SkipWs(s, i + 1)
            IN IF j <= Len(s) /\ s[j] = "]"
               THEN [ok |-> TRUE, val |-> PyList(<<>>), next |-> j + 1]
               ELSE ScanArray(s, j, <<>>)
  ELSE IF s[i] = "n" THEN Literal(s, i, <<"n", "u", "l", "l">>, PyNone)
  ELSE IF s[i] = "t" THEN Literal(s, i, <<"t", "r", "u", "e">>, PyBool(TRUE))
  ELSE IF s[i] = "f"
       THEN Literal(s, i, <<"f", "a", "l", "s", "e">>, PyBool(FALSE))
  ELSE ParseNumber(s, i)

\* JSONArray: i is at the next element
ScanArray(s, i, acc) ==
  LET v == ScanOnce(s, i)
  IN IF ~v.ok THEN JsonFail
     ELSE LET j == SkipWs(s, v.next)
          IN IF j > Len(s) THEN JsonFail
             ELSE IF s[j] = "]"
                  THEN [ok |-> TRUE, val |-> PyList(Append(acc, v.val)),
                        next |-> j + 1]
             ELSE IF s[j] = ","
                  THEN ScanArray(s, SkipWs(s, j + 1), Append(acc, v.val))
             ELSE JsonFail

\* JSONObject: i is at the opening quote of the next key
ScanObject(s, i, acc) ==
  IF ~(i <= Len(s) /\ s[i] = "\"") THEN JsonFail
  ELSE LET k == ScanString(s, i + 1, <<>>)
       IN IF ~k.ok THEN JsonFail
          ELSE LET c == SkipWs(s, k.next)
               IN IF ~(c <= Len(s) /\ s[c] = ":") THEN JsonFail
                  ELSE LET v == ScanOnce(s, SkipWs(s, c + 1))
                       IN IF ~v.ok THEN JsonFail
                          ELSE LET j == SkipWs(s, v.next)
                                   kv == DictSet(acc, k.val.s, v.val)
                               IN IF j > Len(s) THEN JsonFail
                                  ELSE IF s[j] = "}"
                                       THEN [ok |-> TRUE, val |-> PyDict(kv),
                                             next |-> j + 1]
                                  ELSE IF s[j] = ","
                                       THEN ScanObject(s, SkipWs(s, j + 1), kv)
                                  ELSE JsonFail

\* json.loads(s): JSONDecoder.decode = raw_decode after whitespace, then
\* "Extra data" unless only whitespace follows
JsonLoads(s) ==
  LET v == ScanOnce(s, SkipWs(s, 1))
  IN IF ~v.ok THEN JsonFail
     ELSE IF SkipWs(s, v.next) <= Len(s) THEN JsonFail
     ELSE [ok |-> TRUE, val |-> v.val]

(***************************************************************************)
(* Response normalization of parse_receipt.                                *)
(***************************************************************************)
\* the text handed to json.loads
StripResponse(raw) ==
  LET response_text == StrStrip(raw)
  IN IF StartsWith(response_text, Fence)
     THEN StrJoin("\n", SliceInner(StrSplit(response_text, "\n")))
     ELSE response_text

NormalizeResponse(raw) == JsonLoads(StripResponse(raw))

(***************************************************************************)
(* Exceptions: [cls, msg]; msg is the fixed prefix of the message.         *)
(***************************************************************************)
NoExc == [cls |-> "none", msg |-> ""]

Exc(cls, msg) == [cls |-> cls, msg |-> msg]

\* isinstance(e, ValueError): json.JSONDecodeError subclasses ValueError
IsValueError(cls) == cls \in {"ValueError", "JSONDecodeError"}

InvalidImageMsg == "Invalid image file"
MalformedMsg == "Failed to parse Gemini response as JSON"
ApiErrorMsg == "Gemini API error"
InvalidTypeMsg == "Invalid file type"
ProcessFailedMsg == "Failed to process receipt"

(***************************************************************************)
(* Inputs: declared content types, uploads, upstream behaviours.           *)
(***************************************************************************)
\* faulty variant of AllowedTypes: one type too many
AllowedTypesLoose ==
  {"image/jpeg", "image/png", "image/webp", "image/heic", "application/pdf"}

\* allowed_types of scan_receipt
AllowedTypes == {"image/jpeg", "image/png", "image/webp", "image/heic"}

ContentTypes == AllowedTypes \cup {"application/pdf"}

\* image bytes: the first decodes as an image, the second does not
PngData == <<137, 80, 78, 71>>
JunkData == <<0, 1>>

\* an upload: its bytes, and the exception class file.read() raises, if any
Uploads ==
  {[data |-> PngData, fault |-> "none"], [data |-> JunkData, fault |-> "none"],
   [data |-> PngData, fault |-> "ValueError"],
   [data |-> PngData, fault |-> "OSError"]}

NoUpload == [data |-> <<>>, fault |-> "none"]

RawScanText ==
  <<"{", "\"", "i", "t", "e", "m", "s", "\"", ":", "[", "{", "\"", "n", "a",
  "m", "e", "\"", ":", "\"", "C", "o", "f", "f", "e", "e", "\"", ",", "\"",
  "p", "r", "i", "c", "e", "\"", ":", "4", ".", "5", "0", ",", "\"", "q",
  "u", "a", "n", "t", "i", "t", "y", "\"", ":", "1", "}", "]", ",", "\"",
  "s", "u", "b", "t", "o", "t", "a", "l", "\"", ":", "4", ".", "5", "0",
  ",", "\"", "t", "a", "x", "\"", ":", "0", ".", "4", "0", ",", "\"", "t",
  "o", "t", "a", "l", "\"", ":", "4", ".", "9", "0", ",", "\"", "s", "c",
  "a", "n", "n", "e", "d", "_", "t", "i", "p", "\"", ":", "n", "u", "l",
  "l", "}">>

FencedScanText ==
  <<BQ, BQ, BQ, "j", "s", "o", "n", "\n", "{", "\"", "i", "t", "e", "m",
  "s", "\"", ":", " ", "[", "]", ",", " ", "\"", "t", "o", "t", "a", "l",
  "\"", ":", " ", "1", "2", ",", " ", "\"", "s", "c", "a", "n", "n", "e",
  "d", "_", "t", "i", "p", "\"", ":", " ", "n", "u", "l", "l", "}", "\n",
  BQ, BQ, BQ, "\n">>

ProseText ==
  <<"S", "o", "r", "r", "y", ",", " ", "I", " ", "c", "a", "n", "n", "o",
  "t", " ", "r", "e", "a", "d", " ", "t", "h", "i", "s", " ", "r", "e", "c",
  "e", "i", "p", "t", ".">>

ListText == <<"[", "]">>

StringTotalText ==
  <<"{", "\"", "i", "t", "e", "m", "s", "\"", ":", "[", "{", "\"", "n", "a",
  "m", "e", "\"", ":", "\"", "T", "e", "a", "\"", "}", "]", ",", "\"", "t",
  "o", "t", "a", "l", "\"", ":", "\"", "4", ".", "9", "0", "\"", "}">>

\* what client.models.generate_content does: answers with a text, answers
\* with no text (response.text is None), or raises
StubBehaviours ==
  {[kind |-> "text", text |-> RawScanText],
   [kind |-> "text", text |-> FencedScanText],
   [kind |-> "text", text |-> ProseText],
   [kind |-> "text", text |-> ListText],
   [kind |-> "text", text |-> StringTotalText],
   [kind |-> "no_text"],
   [kind |-> "raise", cls |-> "APIError"],
   [kind |-> "raise", cls |-> "JSONDecodeError"]}

(***************************************************************************)
(* GeminiService (services/gemini.py).                                     *)
(***************************************************************************)
\* faulty variant of GeminiServiceInit: the constructor takes the key out of
\* the shared settings record
GeminiServiceInitConsumesKey(s, e) ==
  LET api_key == IF s.gemini_api_key # "" THEN s.gemini_api_key
                 ELSE e.GEMINI_API_KEY
  IN [raised |-> IF api_key = ""
                 THEN Exc("ValueError", "Missing key inputs argument")
                 ELSE NoExc,
      api_key |-> api_key, model_name |-> "gemini-2.5-flash",
      settings |-> [s EXCEPT !.gemini_api_key = ""]]

\* GeminiService.__init__: the key comes from the settings, else from the
\* environment; genai.Client refuses an empty key with a ValueError.  The
\* settings record is read, never written.
GeminiServiceInit(s, e) ==
  LET api_key == IF s.gemini_api_key # "" THEN s.gemini_api_key
                 ELSE e.GEMINI_API_KEY
  IN [raised |-> IF api_key = ""
                 THEN Exc("ValueError", "Missing key inputs argument")
                 ELSE NoExc,
      api_key |-> api_key, model_name |-> "gemini-2.5-flash", settings |-> s]

\* Image.open(...) and image.verify() succeed
DecodableImages == {PngData}

PilVerifies(image_data) == image_data \in DecodableImages

\* self.client.models.generate_content(...): the upstream answers as stubbed
GenerateContent(up, image_data, content_type) == up

\* faulty variant of HandleUpstreamExcept: the broad clause comes first
HandleUpstreamExceptBroad(cls) == Exc("RuntimeError", ApiErrorMsg)

\* faulty variant of HandleUpstreamExcept: every failure raised as ValueError
HandleUpstreamExceptAllValue(cls) ==
  IF cls = "JSONDecodeError" THEN Exc("ValueError", MalformedMsg)
  ELSE Exc("ValueError", ApiErrorMsg)

\* the except clauses that close the upstream block of parse_receipt
HandleUpstreamExcept(cls) ==
  IF cls = "JSONDecodeError" THEN Exc("ValueError", MalformedMsg)
  ELSE Exc("RuntimeError", ApiErrorMsg)

\* the upstream block of parse_receipt (the second try): the call, the
\* normalization, and the except clauses.  [raised, result, calls, cause]:
\* calls counts the generate_content calls made, cause names the failed step
UpstreamBlock(image_data, content_type, up) ==
  LET response == GenerateContent(up, image_data, content_type)
  IN IF response.kind = "raise"
     THEN [raised |-> HandleUpstreamExcept(response.cls), calls |-> 1,
           cause |-> "upstream"]
     ELSE IF response.kind = "no_text"
     THEN [raised |-> HandleUpstreamExcept("AttributeError"), calls |-> 1,
           cause |-> "upstream"]
     ELSE LET result == NormalizeResponse(response.text)
          IN IF ~result.ok
             THEN [raised |-> HandleUpstreamExcept("JSONDecodeError"),
                   calls |-> 1, cause |-> "json"]
             ELSE [raised |-> NoExc, result |-> result.val, calls |-> 1,
                   cause |-> "none"]

\* faulty variant of ParseReceipt: the image is validated after the call
ParseReceiptLateVerify(image_data, content_type, up) ==
  LET u == UpstreamBlock(image_data, content_type, up)
  IN IF u.raised # NoExc THEN u
     ELSE IF ~PilVerifies(image_data)
     THEN [raised |-> Exc("ValueError", InvalidImageMsg), calls |-> u.calls,
           cause |-> "image"]
     ELSE u

\* faulty variant of ParseReceipt: a failed upstream block is run again
ParseReceiptRetry(image_data, content_type, up) ==
  LET u == UpstreamBlock(image_data, content_type, up)
      again == UpstreamBlock(image_data, content_type, up)
  IN IF ~PilVerifies(image_data)
     THEN [raised |-> Exc("ValueError", InvalidImageMsg), calls |-> 0,
           cause |-> "image"]
     ELSE IF u.raised # NoExc
     THEN [again EXCEPT !.calls = u.calls + again.calls]
     ELSE u

\* parse_receipt: the image is validated first, then the upstream block runs
ParseReceipt(image_data, content_type, up) ==
  IF ~PilVerifies(image_data)
  THEN [raised |-> Exc("ValueError", InvalidImageMsg), calls |-> 0,
        cause |-> "image"]
  ELSE UpstreamBlock(image_data, content_type, up)

(***************************************************************************)
(* The endpoint (api/endpoints/receipts.py).                               *)
(***************************************************************************)
DictHas(kv, key) == \E n \in 1..Len(kv) : kv[n][1] = key

DictGet(kv, key) == kv[CHOOSE n \in 1..Len(kv) : kv[n][1] = key][2]

IsNumber(v) == v.t \in {"int", "float"}

\* class ReceiptItem: name: str, price: float, quantity: int = 1
IsReceiptItem(v) ==
  /\ v.t = "dict"
  /\ DictHas(v.kv, <<"n", "a", "m", "e">>)
  /\ DictGet(v.kv, <<"n", "a", "m", "e">>).t = "str"
  /\ DictHas(v.kv, <<"p", "r", "i", "c", "e">>)
  /\ IsNumber(DictGet(v.kv, <<"p", "r", "i", "c", "e">>))
  /\ DictHas(v.kv, <<"q", "u", "a", "n", "t", "i", "t", "y">>)
       => DictGet(v.kv, <<"q", "u", "a", "n", "t", "i", "t", "y">>).t = "int"

MoneyFields ==
  {<<"s", "u", "b", "t", "o", "t", "a", "l">>, <<"t", "a", "x">>,
   <<"t", "o", "t", "a", "l">>,
   <<"s", "c", "a", "n", "n", "e", "d", "_", "t", "i", "p">>}

\* class ScanResponse: items: List[ReceiptItem], and four Optional[float]
IsScanResponse(v) ==
  /\ v.t = "dict"
  /\ DictHas(v.kv, <<"i", "t", "e", "m", "s">>)
  /\ LET items == DictGet(v.kv, <<"i", "t", "e", "m", "s">>)
     IN /\ items.t = "list"
        /\ \A n \in 1..Len(items.xs) : IsReceiptItem(items.xs[n])
  /\ \A f \in MoneyFields :
       DictHas(v.kv, f) => \/ DictGet(v.kv, f) = PyNone
                           \/ IsNumber(DictGet(v.kv, f))

\* the except clauses of scan_receipt
EndpointExcept(exc) ==
  IF IsValueError(exc.cls) THEN [status |-> 400, detail |-> <<exc.msg>>]
  ELSE [status |-> 500, detail |-> <<ProcessFailedMsg, exc.msg>>]

\* faulty variant of ResponseBody: None-valued fields are left out, as
\* response_model_exclude_none would
RECURSIVE DropNone(_)
DropNone(kv) ==
  IF kv = <<>> THEN <<>>
  ELSE IF kv[1][2] = PyNone THEN DropNone(Tail(kv))
  ELSE <<kv[1]>> \o DropNone(Tail(kv))

ResponseBodyExcludeNone(result) ==
  IF result.t = "dict" THEN PyDict(DropNone(result.kv)) ELSE result

\* return result: the route declares no response_model
ResponseBody(result) == result

Requests == 1..NumRequests

IdleReq ==
  [pc |-> "idle", content_type |-> "", upload |-> NoUpload, reads |-> 0,
   services |-> 0, calls |-> 0, cause |-> "none", raised |-> NoExc,
   resp |-> [status |-> 0]]

\* scan_receipt up to await file.read(): the content-type check
Receive(r, ct, up) ==
  /\ req[r].pc = "idle"
  /\ req' = [req EXCEPT ![r] =
       IF ct \notin AllowedTypes
       THEN [IdleReq EXCEPT !.pc = "done", !.content_type = ct,
                            !.upload = up, !.cause = "content_type",
                            !.resp = [status |-> 400,
                                      detail |-> <<InvalidTypeMsg>>]]
       ELSE [IdleReq EXCEPT !.pc = "reading", !.content_type = ct,
                            !.upload = up]]
  /\ UNCHANGED <<settings, environ, stub, text, npieces, normOut>>

\* the body of the try block, from the end of file.read() to the response:
\* [req, settings]
HandleUpload(q, s, e, up) ==
  LET fault == q.upload.fault
      svc == GeminiServiceInit(s, e)
      pr == ParseReceipt(q.upload.data, q.content_type, up)
  IN IF fault # "none"
     THEN [req |-> [q EXCEPT !.pc = "done", !.reads = 1, !.cause = "read",
                             !.raised = Exc(fault, "read"),
                             !.resp = EndpointExcept(Exc(fault, "read"))],
           settings |-> s]
     ELSE IF svc.raised # NoExc
     THEN [req |-> [q EXCEPT !.pc = "done", !.reads = 1, !.services = 1,
                             !.cause = "client", !.raised = svc.raised,
                             !.resp = EndpointExcept(svc.raised)],
           settings |-> svc.settings]
     ELSE IF pr.raised # NoExc
     THEN [req |-> [q EXCEPT !.pc = "done", !.reads = 1, !.services = 1,
                             !.calls = pr.calls, !.cause = pr.cause,
                             !.raised = pr.raised,
                             !.resp = EndpointExcept(pr.raised)],
           settings |-> svc.settings]
     ELSE [req |-> [q EXCEPT !.pc = "done", !.reads = 1, !.services = 1,
                             !.calls = pr.calls,
                             !.resp = [status |-> 200,
                                       body |-> ResponseBody(pr.result)]],
           settings |-> svc.settings]

\* scan_receipt from the end of file.read() on; nothing in it awaits again
Complete(r) ==
  /\ req[r].pc = "reading"
  /\ LET h == HandleUpload(req[r], settings, environ, stub)
     IN /\ req' = [req EXCEPT ![r] = h.req]
        /\ settings' = h.settings
  /\ UNCHANGED <<environ, stub, text, npieces, normOut>>

Pending == [done |-> FALSE]

Init ==
  /\ settings \in [gemini_api_key : {"", "key"}]
  /\ environ \in [GEMINI_API_KEY : {"", "key"}]
  /\ stub \in StubBehaviours
  /\ req = [r \in Requests |-> IdleReq]
  /\ text = <<>>
  /\ npieces = 0
  /\ normOut = Pending

Next ==
  \/ \E r \in Requests, ct \in ContentTypes, up \in Uploads : Receive(r, ct, up)
  \/ \E r \in Requests : Complete(r)

Spec == Init /\ [][Next]_vars

(***************************************************************************)
(* The normalizer on its own: an upstream text is put together from        *)
(* pieces, then normalized.                                                *)
(***************************************************************************)
ItemsObjectText ==
  <<"{", "\"", "i", "t", "e", "m", "s", "\"", ":", "[", "]", "}">>

Pieces ==
  {Fence, <<"\n">>, <<" ">>, <<"j", "s", "o", "n">>, ItemsObjectText, <<"1">>}

Extend(p) ==
  /\ ~normOut.done
  /\ npieces < MaxPieces
  /\ text' = text \o p
  /\ npieces' = npieces + 1
  /\ UNCHANGED <<settings, environ, stub, req, normOut>>

Normalize ==
  /\ ~normOut.done
  /\ normOut' = [done |-> TRUE, stripped |-> StripResponse(text),
                 result |-> NormalizeResponse(text)]
  /\ UNCHANGED <<settings, environ, stub, req, text, npieces>>

InitNorm ==
  /\ settings = [gemini_api_key |-> "key"]
  /\ environ = [GEMINI_API_KEY |-> ""]
  /\ stub = [kind |-> "no_text"]
  /\ req = [r \in Requests |-> IdleReq]
  /\ text = <<>>
  /\ npieces = 0
  /\ normOut = Pending

NextNorm ==
  \/ \E p \in Pieces : Extend(p)
  \/ Normalize

SpecNorm == InitNorm /\ [][NextNorm]_vars

(***************************************************************************)
(* Properties.                                                             *)
(***************************************************************************)
Done(r) == req[r].pc = "done"

\* the request reached parse_receipt: the upload was read and the client built
Parsed(r) ==
  /\ Done(r)
  /\ req[r].cause \notin {"content_type", "read", "client"}

\* C1: a request whose declared content type is not image/jpeg, image/png,
\* image/webp or image/heic is answered 400 without the upload being read, a
\* GeminiService being constructed or generate_content being called; a
\* request with one of these types gets past the check, whatever its bytes.
C1_ContentTypeGate ==
  \A r \in Requests :
    req[r].pc # "idle" =>
      IF req[r].content_type
           \notin {"image/jpeg", "image/png", "image/webp", "image/heic"}
      THEN /\ Done(r)
           /\ req[r].resp.status = 400
           /\ req[r].reads = 0
           /\ req[r].services = 0
           /\ req[r].calls = 0
      ELSE \/ req[r].pc = "reading"
           \/ Done(r) /\ req[r].reads = 1

C1_Witness ==
  \E r1, r2 \in Requests :
    /\ Done(r1) /\ req[r1].content_type = "application/pdf"
    /\ req[r1].resp.status = 400
    /\ Done(r2) /\ req[r2].content_type = "image/heic"
    /\ req[r2].upload.data = JunkData /\ req[r2].reads = 1

\* C2: when parse_receipt is given bytes that do not decode as an image, it
\* raises ValueError "Invalid image file", generate_content is not called,
\* and the endpoint answers 400.
C2_InvalidImage ==
  \A r \in Requests :
    Parsed(r) /\ req[r].upload.data = JunkData =>
      /\ req[r].raised = Exc("ValueError", "Invalid image file")
      /\ req[r].calls = 0
      /\ req[r].resp = [status |-> 400, detail |-> <<"Invalid image file">>]

C2_Witness ==
  \E r \in Requests :
    /\ Parsed(r) /\ req[r].upload.data = JunkData
    /\ req[r].services = 1 /\ req[r].resp.status = 400
    /\ stub.kind = "text"

\* the text without its surrounding whitespace
Trimmed(raw) ==
  LET solid == {i \in 1..Len(raw) : raw[i] \notin {" ", "\n", "\t", "\r"}}
  IN IF solid = {} THEN <<>>
     ELSE SubSeq(raw, CHOOSE i \in solid : \A j \in solid : i <= j,
                      CHOOSE i \in solid : \A j \in solid : i >= j)

BeginsWithFence(t) == Len(t) >= 3 /\ \A i \in 1..3 : t[i] = BQ

\* the text without its first line and its last line
WithoutFirstAndLastLine(t) ==
  LET breaks == {i \in 1..Len(t) : t[i] = "\n"}
  IN IF breaks = {} THEN <<>>
     ELSE SubSeq(t, (CHOOSE i \in breaks : \A j \in breaks : i <= j) + 1,
                    (CHOOSE i \in breaks : \A j \in breaks : i >= j) - 1)

ItemsObject == PyDict(<< <<(<<"i", "t", "e", "m", "s">>), PyList(<<>>)>> >>)

\* C3: the normalizer returns the JSON parse of the text trimmed of
\* surrounding whitespace and, only if the trimmed text begins with three
\* backquotes, with its first and last line removed.  A JSON value between
\* a leading fence line and a closing fence line comes out as that value,
\* and raw JSON is parsed as it is.
C3_Normalizer ==
  normOut.done =>
    LET t == Trimmed(text)
        fed == IF BeginsWithFence(t) THEN WithoutFirstAndLastLine(t) ELSE t
    IN /\ normOut.stripped = fed
       /\ normOut.result = JsonLoads(fed)
       /\ ~BeginsWithFence(t) => normOut.result = JsonLoads(text)
       /\ \A tag \in {<<>>, <<"j", "s", "o", "n">>} :
            text = Fence \o tag \o <<"\n">> \o ItemsObjectText \o <<"\n">>
                     \o Fence
              => normOut.result = [ok |-> TRUE, val |-> ItemsObject]
       /\ text = ItemsObjectText
            => normOut.result = [ok |-> TRUE, val |-> ItemsObject]

C3_Witness ==
  /\ normOut.done
  /\ text = Fence \o <<"j", "s", "o", "n", "\n">> \o ItemsObjectText
              \o <<"\n">> \o Fence
  /\ normOut.result = [ok |-> TRUE, val |-> ItemsObject]

C5_OtherFailuresAre500 ==
  \A r \in Requests :
    Done(r) /\ req[r].cause \in {"read", "client", "upstream"} =>
      req[r].resp.status = 500

\* C6: a finished request carries an error response or a 200 whose body has
\* the ScanResult shape.
C6_OnlyScanResults ==
  \A r \in Requests :
    Done(r) =>
      \/ req[r].resp.status \in {400, 500}
      \/ req[r].resp.status = 200 /\ IsScanResponse(req[r].resp.body)

FailureKinds == {"image", "json", "upstream"}

\* C7 as stated: invalid image, malformed response and upstream failure are
\* raised as three pairwise different error kinds.
C7_PairwiseDistinctKinds ==
  \A r1, r2 \in Requests :
    (/\ Done(r1) /\ Done(r2)
     /\ req[r1].cause \in FailureKinds /\ req[r2].cause \in FailureKinds
     /\ req[r1].cause # req[r2].cause) =>
      req[r1].raised.cls # req[r2].raised.cls

\* C7 amended: parse_receipt raises two error kinds.  An invalid image and a
\* malformed response are both ValueError, told apart by their message
\* alone; every other failure of the upstream block is RuntimeError, except
\* a json.JSONDecodeError raised by the call itself, which is reported as a
\* malformed response.
C7_TwoKinds ==
  \A r \in Requests :
    Done(r) =>
      /\ req[r].cause = "image" =>
           req[r].raised = Exc("ValueError", "Invalid image file")
      /\ req[r].cause = "json" =>
           req[r].raised
             = Exc("ValueError", "Failed to parse Gemini response as JSON")
      /\ req[r].cause = "upstream" =>
           req[r].raised
             = IF stub = [kind |-> "raise", cls |-> "JSONDecodeError"]
               THEN Exc("ValueError", "Failed to parse Gemini response as JSON")
               ELSE Exc("RuntimeError", "Gemini API error")

C7_Witness ==
  \E r1, r2 \in Requests :
    /\ Done(r1) /\ req[r1].cause = "image"
    /\ Done(r2) /\ req[r2].cause = "upstream"
    /\ req[r2].raised.cls = "RuntimeError"

\* C8: within one request generate_content is called at most once, the
\* upload is read and the client built at most once, and a finished request
\* stays as it finished.
C8_NoRetry ==
  /\ [](\A r \in Requests :
          req[r].calls <= 1 /\ req[r].reads <= 1 /\ req[r].services <= 1)
  /\ [][\A r \in Requests : Done(r) => req'[r] = req[r]]_vars

C8_Witness ==
  \E r1, r2 \in Requests :
    /\ Done(r1) /\ req[r1].cause = "upstream" /\ req[r1].calls = 1
    /\ req[r1].resp.status = 500
    /\ Done(r2) /\ req[r2].cause = "read" /\ req[r2].calls = 0

\* the body the end-to-end scenario expects
CoffeeScan ==
  PyDict(<<
    <<<<"i", "t", "e", "m", "s">>,
      PyList(<<PyDict(<<
        <<<<"n", "a", "m", "e">>, PyStr(<<"C", "o", "f", "f", "e", "e">>)>>,
        <<<<"p", "r", "i", "c", "e">>, [t |-> "float", m |-> 45, e |-> 1]>>,
        <<<<"q", "u", "a", "n", "t", "i", "t", "y">>, PyInt(1)>> >>)>>)>>,
    <<<<"s", "u", "b", "t", "o", "t", "a", "l">>,
      [t |-> "float", m |-> 45, e |-> 1]>>,
    <<<<"t", "a", "x">>, [t |-> "float", m |-> 4, e |-> 1]>>,
    <<<<"t", "o", "t", "a", "l">>, [t |-> "float", m |-> 49, e |-> 1]>>,
    <<<<"s", "c", "a", "n", "n", "e", "d", "_", "t", "i", "p">>, PyNone>> >>)

\* C9: the body of a 200 response is the value the normalizer parsed from
\* the upstream text, unchanged; a field given as null is there as null.
C9_BodyVerbatim ==
  \A r \in Requests :
    Done(r) /\ req[r].resp.status = 200 =>
      /\ stub.kind = "text"
      /\ req[r].resp.body = JsonLoads(StripResponse(stub.text)).val
      /\ stub.text = RawScanText => req[r].resp.body = CoffeeScan

C9_Witness ==
  \E r \in Requests :
    /\ Done(r) /\ req[r].resp.status = 200
    /\ req[r].content_type = "image/png"
    /\ stub.text = RawScanText
    /\ DictGet(req[r].resp.body.kv,
               <<"s", "c", "a", "n", "n", "e", "d", "_", "t", "i", "p">>)
         = PyNone

\* C10: two requests with the same content type and the same upload, against
\* the same deterministic upstream, end with the same outcome, whatever the
\* order and interleaving of the requests.
C10_SameInputSameOutcome ==
  \A r1, r2 \in Requests :
    (/\ Done(r1) /\ Done(r2)
     /\ req[r1].content_type = req[r2].content_type
     /\ req[r1].upload = req[r2].upload) =>
      req[r1] = req[r2]

C10_Witness ==
  \E r1, r2 \in Requests :
    /\ r1 # r2 /\ Done(r1) /\ Done(r2)
    /\ req[r1].content_type = req[r2].content_type
    /\ req[r1].upload = req[r2].upload
    /\ req[r1].resp.status = 200 /\ req[r2].resp.status = 200

====
